---- MODULE Spec2Model ----
(***************************************************************************)
(* Model of js/landing.js: the registration form of the CricSynthesis      *)
(* landing page.  The state is the part of the page the script reads and   *)
(* writes (field values, error annotations, submit button, form and        *)
(* success-message classes), the localStorage slot                         *)
(* 'cricsynthesis_registrations', the requests handed to fetch, and one    *)
(* record per invocation of handleFormSubmit that passed validation.       *)
(*                                                                         *)
(* The inputs with ids 'name' and 'email' exist, each in a parent element  *)
(* of its own; the element with id 'successMessage' may be missing.  The   *)
(* submit listener runs for every submit event dispatched to the form: it  *)
(* has no test of its own on the state of the button.                      *)
(*                                                                         *)
(* Strings are sequences of one-character strings.  The character " "      *)
(* stands for any whitespace, "a" and "J"/"o"/"x"/"c" for letters, "1"     *)
(* for a digit, "@" and "." for themselves.                                *)
(***************************************************************************)
EXTENDS Integers, Sequences, FiniteSets, TLC

\* ------------------------------------------------------------------ bounds
\* invocations of handleFormSubmit followed in one behaviour
MaxCalls == 2
\* longest name typed in the exhaustive validation runs
MaxNameLen == 3
\* longest email typed in the exhaustive validation runs
MaxEmailLen == 5

\* --------------------------------------------------------------- strings
NameChars == {"a", "1", " "}
EmailChars == {"a", "@", ".", " "}

StrsUpTo(chars, n) == UNION {[1..k -> chars] : k \in 0..n}

NameStrs == StrsUpTo(NameChars, MaxNameLen)
EmailStrs == StrsUpTo(EmailChars, MaxEmailLen)

\* values typed in the runs of the whole pipeline
SampleNames == {<<>>, <<"J", "o">>, <<"J", "1">>}
SampleEmails == {<<>>, <<"j", "@", "x", ".", "c">>}

Fields == {"name", "email"}

\* \s of the two patterns
IsSpace(c) == c = " "

\* [a-zA-Z\s'-] of validationRules.name.pattern
InNameClass(c) == c \in {"a", "J", "o", "j", "x", "c", " ", "'", "-"}

\* [^\s@] of validationRules.email.pattern
InEmailClass(c) == ~IsSpace(c) /\ c # "@"

RECURSIVE TrimLeft(_)
TrimLeft(s) ==
    IF s = <<>> THEN <<>>
    ELSE IF IsSpace(Head(s)) THEN TrimLeft(Tail(s)) ELSE s

RECURSIVE TrimRight(_)
TrimRight(s) ==
    IF s = <<>> THEN <<>>
    ELSE IF IsSpace(s[Len(s)]) THEN TrimRight(SubSeq(s, 1, Len(s) - 1)) ELSE s

\* String.prototype.trim
Trim(s) == TrimRight(TrimLeft(s))

\* /^[a-zA-Z\s'-]+$/.test(s)
NamePatternTest(s) == Len(s) >= 1 /\ \A i \in 1..Len(s) : InNameClass(s[i])

\* One step of the matcher of /^[^\s@]+@[^\s@]+\.[^\s@]+$/ : the positions
\* of the pattern that can be current after reading c from position q.
\*   0 start, 1 in local part, 2 after '@', 3 in domain, 4 after '.', 5 in tld
EmailStep(q, c) ==
    CASE q = 0 -> IF InEmailClass(c) THEN {1} ELSE {}
      [] q = 1 -> IF InEmailClass(c) THEN {1} ELSE IF c = "@" THEN {2} ELSE {}
      [] q = 2 -> IF InEmailClass(c) THEN {3} ELSE {}
      [] q = 3 -> IF c = "." THEN {3, 4} ELSE IF InEmailClass(c) THEN {3} ELSE {}
      [] q = 4 -> IF InEmailClass(c) THEN {5} ELSE {}
      [] q = 5 -> IF InEmailClass(c) THEN {5} ELSE {}

RECURSIVE EmailRun(_, _)
EmailRun(qs, s) ==
    IF s = <<>> THEN qs
    ELSE EmailRun(UNION {EmailStep(q, Head(s)) : q \in qs}, Tail(s))

\* validationRules.email.pattern.test(s)
EmailPatternTest(s) == 5 \in EmailRun({0}, s)

PatternTest(p, s) ==
    CASE p = "name" -> NamePatternTest(s)
      [] p = "email" -> EmailPatternTest(s)
      [] OTHER -> TRUE

\* minLength 0 and pattern "none" stand for an absent key
validationRules ==
    [name |-> [required |-> TRUE, minLength |-> 2, pattern |-> "name"],
     email |-> [required |-> TRUE, minLength |-> 0, pattern |-> "email"],
     organization |-> [required |-> FALSE, minLength |-> 0, pattern |-> "none"],
     segment |-> [required |-> FALSE, minLength |-> 0, pattern |-> "none"]]

\* ------------------------------------------------------------ page state
VARIABLES
    value,              \* input.value of each form field
    annot,              \* per field: the 'error' class and the .error-message
                        \* elements in the field's parent, in document order
    button,             \* .form-submit: innerHTML and disabled
    formHidden,         \* registrationForm.classList contains 'hidden'
    successActive,      \* successMessage.classList contains 'active'
    hasSuccessMessage,  \* document.getElementById('successMessage') # null
    slot,               \* localStorage['cricsynthesis_registrations']
    now,                \* the clock new Date() reads; it moves on after a write
    sent,               \* bodies of the requests handed to fetch
    calls               \* the invocations of handleFormSubmit that passed
                        \* validation, in order

vars == <<value, annot, button, formHidden, successActive, hasSuccessMessage,
          slot, now, sent, calls>>

OriginalText == "Join"
ProcessingText == "<span>Processing...</span>"
Href == "https://cricsynthesis/"

NoAnnot == [error |-> FALSE, msgs |-> <<>>]

\* ------------------------------------------------------- error presenter
\* parent.querySelector('.error-message') finds the first such element;
\* remove() takes that one out
RemoveExisting(msgs) == IF msgs = <<>> THEN <<>> ELSE Tail(msgs)

\* showFieldError without the removal of the existing message
showFieldErrorNoRemove(a, fieldName, message) ==
    [a EXCEPT ![fieldName] =
        [error |-> TRUE, msgs |-> Append(@.msgs, message)]]

showFieldError(a, fieldName, message) ==
    [a EXCEPT ![fieldName] =
        [error |-> TRUE, msgs |-> Append(RemoveExisting(@.msgs), message)]]

\* clearFieldError without the removal of the message element
clearFieldErrorKeepMessage(a, fieldName) ==
    [a EXCEPT ![fieldName] = [error |-> FALSE, msgs |-> @.msgs]]

clearFieldError(a, fieldName) ==
    [a EXCEPT ![fieldName] =
        [error |-> FALSE, msgs |-> RemoveExisting(@.msgs)]]

\* ----------------------------------------------------------- validation
\* validateForm without the evaluation of the second field once the first
\* one has failed
validateFormShortCircuit(data, a) ==
    LET nameBad == data.name = <<>> \/ Len(data.name) < 2
        emailBad == data.email = <<>> \/ ~EmailPatternTest(data.email)
    IN  IF nameBad
        THEN [isValid |-> FALSE,
              annot |-> showFieldError(a, "name", "Please enter a valid name")]
        ELSE [isValid |-> ~emailBad,
              annot |-> IF emailBad
                        THEN showFieldError(clearFieldError(a, "name"), "email",
                                            "Please enter a valid email address")
                        ELSE clearFieldError(clearFieldError(a, "name"), "email")]

validateForm(data, a) ==
    LET nameBad == data.name = <<>> \/ Len(data.name) < 2
        a1 == IF nameBad
              THEN showFieldError(a, "name", "Please enter a valid name")
              ELSE clearFieldError(a, "name")
        emailBad == data.email = <<>> \/ ~EmailPatternTest(data.email)
        a2 == IF emailBad
              THEN showFieldError(a1, "email", "Please enter a valid email address")
              ELSE clearFieldError(a1, "email")
    IN  [isValid |-> ~nameBad /\ ~emailBad, annot |-> a2]

\* validateField with the pattern test ahead of the length test
validateFieldPatternFirst(a, name, raw) ==
    LET v == Trim(raw)
        rules == validationRules[name]
    IN  IF name \notin DOMAIN validationRules THEN a
        ELSE IF rules.required /\ v = <<>>
             THEN showFieldError(a, name, "This field is required")
        ELSE IF rules.pattern # "none" /\ v # <<>> /\ ~PatternTest(rules.pattern, v)
             THEN showFieldError(a, name, "Please enter a valid value")
        ELSE IF rules.minLength # 0 /\ Len(v) < rules.minLength
             THEN showFieldError(a, name, "Minimum 2 characters required")
        ELSE clearFieldError(a, name)

validateField(a, name, raw) ==
    LET v == Trim(raw)
        rules == validationRules[name]
    IN  IF name \notin DOMAIN validationRules THEN a
        ELSE IF rules.required /\ v = <<>>
             THEN showFieldError(a, name, "This field is required")
        ELSE IF rules.minLength # 0 /\ Len(v) < rules.minLength
             THEN showFieldError(a, name, "Minimum 2 characters required")
        ELSE IF rules.pattern # "none" /\ v # <<>> /\ ~PatternTest(rules.pattern, v)
             THEN showFieldError(a, name, "Please enter a valid value")
        ELSE clearFieldError(a, name)

\* ---------------------------------------------------------- local store
Absent == [kind |-> "absent", items |-> <<>>]
\* text that is not the JSON of an array: JSON.parse rejects it, or it
\* parses to a value (null, an object, a number) that has no push
Malformed == [kind |-> "malformed", items |-> <<>>]
ArrayOf(items) == [kind |-> "array", items |-> items]

\* storeRegistration that writes back the new record alone
storeRegistrationOverwrite(s, data, t, writeOk) ==
    IF s.kind = "malformed"
    THEN [slot |-> s, threw |-> TRUE]
    ELSE LET registration == [name |-> data.name, email |-> data.email,
                              timestamp |-> t, source |-> Href]
         IN  IF writeOk
             THEN [slot |-> ArrayOf(<<registration>>), threw |-> FALSE]
             ELSE [slot |-> s, threw |-> TRUE]

\* storeRegistration with unshift in the place of push
storeRegistrationUnshift(s, data, t, writeOk) ==
    IF s.kind = "malformed"
    THEN [slot |-> s, threw |-> TRUE]
    ELSE LET registration == [name |-> data.name, email |-> data.email,
                              timestamp |-> t, source |-> Href]
         IN  IF writeOk
             THEN [slot |-> ArrayOf(<<registration>> \o s.items),
                   threw |-> FALSE]
             ELSE [slot |-> s, threw |-> TRUE]

\* storeRegistration(data) run on the slot s at clock reading t; writeOk is
\* whether localStorage.setItem accepts the write (it throws when the quota
\* is exceeded).  Result: the slot afterwards and whether the call threw.
storeRegistration(s, data, t, writeOk) ==
    IF s.kind = "malformed"
    THEN [slot |-> s, threw |-> TRUE]
    ELSE LET registration == [name |-> data.name, email |-> data.email,
                              timestamp |-> t, source |-> Href]
         IN  IF writeOk
             THEN [slot |-> ArrayOf(Append(s.items, registration)),
                   threw |-> FALSE]
             ELSE [slot |-> s, threw |-> TRUE]

\* ------------------------------------------------------ submit pipeline
\* what the body of handleFormSubmit reads and writes besides the button
World == [slot |-> slot, now |-> now, formHidden |-> formHidden,
          successActive |-> successActive]

\* storeRegistration(data); registrationForm.classList.add('hidden');
\* successMessage.classList.add('active')  -- the same three statements in
\* the try block and in the catch block.  A null successMessage makes the
\* third statement throw after the first two have taken effect.
\* the three statements with the success UI ahead of storeRegistration
ShowThenStore(w, data, writeOk, hasMsg) ==
    LET shown == [w EXCEPT !.formHidden = TRUE,
                           !.successActive = IF hasMsg THEN TRUE ELSE @]
        r == storeRegistration(w.slot, data, w.now, writeOk)
    IN  IF ~hasMsg
        THEN [w |-> shown, threw |-> TRUE, appended |-> 0]
        ELSE [w |-> [shown EXCEPT !.slot = r.slot,
                                  !.now = IF r.threw THEN @ ELSE @ + 1],
              threw |-> r.threw, appended |-> IF r.threw THEN 0 ELSE 1]

StoreThenShow(w, data, writeOk, hasMsg) ==
    LET r == storeRegistration(w.slot, data, w.now, writeOk)
        w1 == [w EXCEPT !.slot = r.slot,
                        !.now = IF r.threw THEN @ ELSE @ + 1]
    IN  IF r.threw
        THEN [w |-> w1, threw |-> TRUE, appended |-> 0]
        ELSE [w |-> [w1 EXCEPT !.formHidden = TRUE,
                               !.successActive = IF hasMsg THEN TRUE ELSE @],
              threw |-> ~hasMsg, appended |-> 1]

\* the try block from the point where the awaited fetch has settled (or has
\* thrown), followed by the catch block when the try block threw; stores
\* counts the calls of storeRegistration made, appends those that returned
AfterFetch(w, data, fetchOk, ok1, ok2, hasMsg) ==
    LET t == IF fetchOk THEN StoreThenShow(w, data, ok1, hasMsg)
             ELSE [w |-> w, threw |-> TRUE, appended |-> 0]
        tried == IF fetchOk THEN 1 ELSE 0
    IN  IF ~t.threw
        THEN [w |-> t.w, escaped |-> FALSE, appends |-> t.appended,
              stores |-> tried]
        ELSE LET c == StoreThenShow(t.w, data, ok2, hasMsg)
             IN  [w |-> c.w, escaped |-> c.threw,
                  appends |-> t.appended + c.appended,
                  stores |-> tried + 1]

\* the loading state entered although validation failed
LoadingStateAlways(isValid, b) ==
    [innerHTML |-> ProcessingText, disabled |-> TRUE]

\* the button after the validation gate and the 'Show loading state' lines
LoadingState(isValid, b) ==
    IF isValid THEN [innerHTML |-> ProcessingText, disabled |-> TRUE] ELSE b

SetWorld(w) ==
    /\ slot' = w.slot
    /\ now' = w.now
    /\ formHidden' = w.formHidden
    /\ successActive' = w.successActive

\* Object.fromEntries(new FormData(registrationForm).entries())
Snapshot == [name |-> value["name"], email |-> value["email"]]

\* A continuation whose awaited promise has settled is a microtask: it runs
\* before the next event is dispatched to a listener.
NoContinuationDue == \A h \in 1..Len(calls) : calls[h].pc # "settled"

\* handleFormSubmit from the submit event up to the first suspension: the
\* snapshot, validateForm, the loading state and the call of fetch.  fetch
\* either returns a pending promise or throws at once; in the second case
\* the catch and finally blocks run in the same turn.
HandleFormSubmit ==
    /\ NoContinuationDue
    /\ LET data == Snapshot
           v == validateForm(data, annot)
           loading == LoadingState(v.isValid, button)
       IN  /\ annot' = v.annot
           /\ IF ~v.isValid
              THEN /\ button' = loading
                   /\ UNCHANGED <<slot, now, formHidden, successActive, sent, calls>>
              ELSE /\ Len(calls) < MaxCalls
                   /\ \/ /\ button' = loading
                         /\ sent' = Append(sent, [name |-> data.name,
                                       email |-> data.email, source |-> Href])
                         /\ calls' = Append(calls,
                                [data |-> data, pc |-> "awaiting",
                                 fetch |-> "pending",
                                 originalText |-> button.innerHTML,
                                 appends |-> 0, stores |-> 0,
                                 promise |-> "pending"])
                         /\ UNCHANGED <<slot, now, formHidden, successActive>>
                      \/ \E ok2 \in BOOLEAN :
                           LET r == AfterFetch(World, data, FALSE, TRUE, ok2,
                                               hasSuccessMessage)
                           IN  /\ SetWorld(r.w)
                               /\ button' = [innerHTML |-> button.innerHTML,
                                             disabled |-> FALSE]
                               /\ calls' = Append(calls,
                                      [data |-> data, pc |-> "done",
                                       fetch |-> "over",
                                       originalText |-> "",
                                       appends |-> r.appends,
                                       stores |-> r.stores,
                                       promise |-> IF r.escaped THEN "rejected"
                                                   ELSE "fulfilled"])
                               /\ UNCHANGED sent
    /\ UNCHANGED <<value, hasSuccessMessage>>

\* the remote call settles: the promise returned by fetch resolves or rejects
FetchSettles(h, ok) ==
    /\ NoContinuationDue
    /\ calls[h].pc = "awaiting"
    /\ calls' = [calls EXCEPT ![h].pc = "settled",
                              ![h].fetch = IF ok THEN "resolved" ELSE "rejected"]
    /\ UNCHANGED <<value, annot, button, formHidden, successActive,
                   hasSuccessMessage, slot, now, sent>>

\* handleFormSubmit from the resumption after 'await fetch' to its end; the
\* locals of a finished invocation (response, originalText) are dead and
\* are blanked
Resume(h) ==
    /\ calls[h].pc = "settled"
    /\ \E ok1 \in BOOLEAN, ok2 \in BOOLEAN :
         LET r == AfterFetch(World, calls[h].data, calls[h].fetch = "resolved",
                             ok1, ok2, hasSuccessMessage)
         IN  /\ SetWorld(r.w)
             /\ button' = [innerHTML |-> calls[h].originalText,
                           disabled |-> FALSE]
             /\ calls' = [calls EXCEPT
                    ![h].pc = "done",
                    ![h].fetch = "over",
                    ![h].originalText = "",
                    ![h].appends = r.appends,
                    ![h].stores = r.stores,
                    ![h].promise = IF r.escaped THEN "rejected" ELSE "fulfilled"]
    /\ UNCHANGED <<value, annot, hasSuccessMessage, sent>>

\* ---------------------------------------------------------- field events
\* the 'input' listener without its test of the 'error' class
OnInputAlways(f, s) ==
    /\ NoContinuationDue
    /\ value' = [value EXCEPT ![f] = s]
    /\ annot' = validateField(annot, f, s)
    /\ UNCHANGED <<button, formHidden, successActive, hasSuccessMessage,
                   slot, now, sent, calls>>

\* the user changes a field: the value changes and the 'input' listener runs
OnInput(f, s) ==
    /\ NoContinuationDue
    /\ value' = [value EXCEPT ![f] = s]
    /\ annot' = IF annot[f].error THEN validateField(annot, f, s) ELSE annot
    /\ UNCHANGED <<button, formHidden, successActive, hasSuccessMessage,
                   slot, now, sent, calls>>

\* the 'blur' listener
OnBlur(f) ==
    /\ NoContinuationDue
    /\ annot' = validateField(annot, f, value[f])
    /\ UNCHANGED <<value, button, formHidden, successActive, hasSuccessMessage,
                   slot, now, sent, calls>>

\* --------------------------------------------------------- specifications
Samples(f) == IF f = "name" THEN SampleNames ELSE SampleEmails

InitPage ==
    /\ annot = [f \in Fields |-> NoAnnot]
    /\ button = [innerHTML |-> OriginalText, disabled |-> FALSE]
    /\ formHidden = FALSE
    /\ successActive = FALSE
    /\ now = 0
    /\ sent = <<>>
    /\ calls = <<>>

Init ==
    /\ InitPage
    /\ value = [f \in Fields |-> <<>>]
    /\ hasSuccessMessage \in BOOLEAN
    /\ slot \in {Absent, Malformed}

Next ==
    \/ HandleFormSubmit
    \/ \E h \in 1..MaxCalls, ok \in BOOLEAN : h <= Len(calls) /\ FetchSettles(h, ok)
    \/ \E h \in 1..MaxCalls : h <= Len(calls) /\ Resume(h)
    \/ \E f \in Fields, s \in SampleNames \cup SampleEmails :
          s \in Samples(f) /\ OnInput(f, s)
    \/ \E f \in Fields : OnBlur(f)

Spec == Init /\ [][Next]_vars

\* the handler's own steps are taken when they can be; nothing makes the
\* remote call settle
FairSpec ==
    /\ Spec
    /\ \A h \in 1..MaxCalls : WF_vars(h <= Len(calls) /\ Resume(h))

\* validation applied to every string within the length bounds in one
\* field, beside an empty, a valid and an invalid value of the other field
ValInit ==
    /\ InitPage
    /\ \/ \E n \in NameStrs, e \in SampleEmails :
             value = [name |-> n, email |-> e]
       \/ \E n \in SampleNames, e \in EmailStrs :
             value = [name |-> n, email |-> e]
    /\ hasSuccessMessage = TRUE
    /\ slot = Absent

ValNext ==
    \/ HandleFormSubmit
    \/ \E f \in Fields : OnBlur(f)

ValSpec == ValInit /\ [][ValNext]_vars

\* validateField applied to every string within the length bounds, on a
\* form that also has an input with an entry without constraints
\* ('organization') and an input whose name has no entry ('other'); the
\* markup may give the latter the 'error' class and a message element
AllInputs == Fields \cup {"organization", "other"}

InputsOf(f) ==
    CASE f = "name" -> NameStrs
      [] f = "email" -> EmailStrs
      [] OTHER -> StrsUpTo(NameChars, 1)

FieldInit ==
    /\ \E f \in AllInputs, s \in NameStrs \cup EmailStrs :
          /\ s \in InputsOf(f)
          /\ value = [g \in AllInputs |-> IF g = f THEN s ELSE <<>>]
    /\ \E a \in {NoAnnot, [error |-> TRUE, msgs |-> <<"Invalid">>]} :
          annot = [g \in AllInputs |-> IF g = "other" THEN a ELSE NoAnnot]
    /\ button = [innerHTML |-> OriginalText, disabled |-> FALSE]
    /\ formHidden = FALSE
    /\ successActive = FALSE
    /\ now = 0
    /\ sent = <<>>
    /\ calls = <<>>
    /\ hasSuccessMessage = TRUE
    /\ slot = Absent

FieldNext == \E f \in AllInputs : OnBlur(f)

FieldSpec == FieldInit /\ [][FieldNext]_vars

\* ================================================================ claims
InFlight == {h \in 1..Len(calls) : calls[h].pc \in {"awaiting", "settled"}}
Finished == {h \in 1..Len(calls) : calls[h].pc = "done"}
ValidEmailSample == <<"j", "@", "x", ".", "c">>

\* C1: every handleFormSubmit that passed validation and has finished has
\* appended exactly one record to the stored sequence, whatever the remote
\* call did.
C1_ExactlyOneAppend ==
    \A h \in Finished : calls[h].appends = 1

\* C2: every handleFormSubmit that passed validation eventually appends its
\* record, when only the handler's own steps are scheduled fairly and the
\* remote call need not settle.
C2_EventuallyAppended ==
    \A h \in 1..MaxCalls :
        (h <= Len(calls)) ~> (h <= Len(calls) /\ calls[h].appends >= 1)

\* C3: the promise returned by handleFormSubmit never rejects.
C3_NeverRejects ==
    \A h \in 1..Len(calls) : calls[h].promise # "rejected"

\* C4: when storeRegistration is about to run on a slot that is absent or
\* malformed and the storage accepts the write, it does not throw and
\* leaves the slot holding exactly one record, the new one.
C4_MalformedTreatedAsEmpty ==
    \A h \in 1..Len(calls) :
        (calls[h].pc = "settled" /\ slot.kind \in {"absent", "malformed"}) =>
            LET r == storeRegistration(slot, calls[h].data, now, TRUE)
            IN  /\ ~r.threw
                /\ r.slot.kind = "array"
                /\ Len(r.slot.items) = 1
                /\ r.slot.items[1].name = calls[h].data.name
                /\ r.slot.items[1].email = calls[h].data.email

\* the rules as the specification states them, field by field
NameTooShort(s) == s = <<>> \/ Len(s) < 2

\* local@domain.tld: one '@' after a non-empty local part, a '.' after it
\* with something on both sides, and neither whitespace nor a second '@'
EmailShape(s) ==
    \E i \in 1..Len(s), j \in 1..Len(s) :
        /\ s[i] = "@"
        /\ s[j] = "."
        /\ 1 < i
        /\ i + 1 < j
        /\ j < Len(s)
        /\ \A k \in 1..Len(s) : k # i => (s[k] # "@" /\ ~IsSpace(s[k]))

FailsAtSubmit(f) ==
    IF f = "name" THEN NameTooShort(value["name"])
    ELSE value["email"] = <<>> \/ ~EmailShape(value["email"])

\* C5: a handleFormSubmit whose snapshot fails validation leaves the store,
\* the requests sent, the button, the form, the success message and the
\* field values as they were, and leaves every failing field marked errored
\* with its message.
C5_RejectedSubmitFrame ==
    [][(HandleFormSubmit /\ \E f \in Fields : FailsAtSubmit(f)) =>
          /\ UNCHANGED <<slot, now, sent, button, formHidden, successActive,
                         calls, value>>
          /\ \A f \in Fields : FailsAtSubmit(f) =>
                (annot'[f].error /\ annot'[f].msgs # <<>>)]_vars

\* C5 witness: a submit with an empty name and a well-formed email has been
\* rejected: the name carries validateForm's message, nothing was sent or
\* stored and the page is still Ready.
C5_Witness ==
    /\ value["name"] = <<>>
    /\ value["email"] = ValidEmailSample
    /\ annot["name"] = [error |-> TRUE, msgs |-> <<"Please enter a valid name">>]
    /\ ~annot["email"].error
    /\ sent = <<>>
    /\ calls = <<>>
    /\ slot = Absent
    /\ button = [innerHTML |-> OriginalText, disabled |-> FALSE]
    /\ ~formHidden
    /\ ~successActive

NameRuleHolds(s) ==
    LET t == Trim(s) IN t # <<>> /\ Len(t) >= 2 /\ NamePatternTest(t)

\* C6: no record whose name, trimmed, is empty, shorter than 2 or contains
\* a character other than letters, whitespace, apostrophe and hyphen is
\* ever sent or stored.
C6_NameRuleAtSubmit ==
    /\ \A i \in 1..Len(sent) : NameRuleHolds(sent[i].name)
    /\ \A i \in 1..Len(slot.items) : NameRuleHolds(slot.items[i].name)

\* C7: at every submit, name is marked errored exactly when it is empty or
\* shorter than 2, email exactly when it is empty or not of the shape
\* local@domain.tld, each whatever the other field holds; a valid field
\* ends without annotation; the submit goes on exactly when neither field
\* is invalid.
C7_FieldsJudgedIndependently ==
    [][HandleFormSubmit =>
          /\ \A f \in Fields :
                IF FailsAtSubmit(f)
                THEN annot'[f].error /\ annot'[f].msgs # <<>>
                ELSE annot'[f] = NoAnnot
          /\ (Len(calls') = Len(calls) + 1) <=> (\A f \in Fields : ~FailsAtSubmit(f))]_vars

\* C7 witness: a submit has found both fields invalid and has marked both.
C7_Witness ==
    /\ NameTooShort(value["name"])
    /\ ~EmailShape(value["email"])
    /\ annot["name"] = [error |-> TRUE, msgs |-> <<"Please enter a valid name">>]
    /\ annot["email"] =
          [error |-> TRUE, msgs |-> <<"Please enter a valid email address">>]

\* C8: a blur marks the field errored if and only if a submit would mark it
\* errored for the same raw value.
C8_FieldAgreesWithForm ==
    [][\A f \in Fields :
          OnBlur(f) =>
             (annot'[f].error <=> validateForm(Snapshot, annot).annot[f].error)]_vars

\* C9: once every handleFormSubmit has finished, the button is enabled and
\* carries the label it had before the submits.
C9_ButtonRestored ==
    (calls # <<>> /\ InFlight = {}) =>
        button = [innerHTML |-> OriginalText, disabled |-> FALSE]

\* C10: at most one submission is in flight at any time.
C10_OneInFlight ==
    Cardinality(InFlight) <= 1

\* the call that finishes in this step, if any
FinishingNow ==
    {h \in 1..Len(calls') :
        calls'[h].pc = "done" /\ (h > Len(calls) \/ calls[h].pc # "done")}

\* C11: whenever a continuation is about to run, the state it leaves when
\* the fetch resolved and the state it leaves when the fetch rejected are
\* the same (storage accepting the write): form hidden, success message
\* active, store one record longer, promise fulfilled.
C11_OutcomeIndependentOfRemote ==
    \A h \in 1..Len(calls) :
        calls[h].pc = "settled" =>
            LET a == AfterFetch(World, calls[h].data, TRUE, TRUE, TRUE,
                                hasSuccessMessage)
                b == AfterFetch(World, calls[h].data, FALSE, TRUE, TRUE,
                                hasSuccessMessage)
            IN  /\ a.w = b.w
                /\ a.escaped = b.escaped
                /\ a.w.formHidden
                /\ a.w.successActive
                /\ Len(a.w.slot.items) = Len(slot.items) + 1

\* C12: a submit that entered Submitting returns to Ready only after it has
\* reached Submitted: when a call finishes, the form is hidden and the
\* success message is active.
C12_SubmittedBeforeReady ==
    [][\A h \in FinishingNow : formHidden' /\ successActive']_vars

RECURSIVE SumOver(_, _)
SumOver(F(_), n) == IF n = 0 THEN 0 ELSE F(n) + SumOver(F, n - 1)

StoresOf(h) == calls[h].stores
AppendsOf(h) == calls[h].appends

\* the records n returning calls of storeRegistration(data) add from clock t
RECURSIVE RecordsOf(_, _, _)
RecordsOf(data, n, t) ==
    IF n = 0 THEN <<>>
    ELSE <<[name |-> data.name, email |-> data.email, timestamp |-> t,
            source |-> Href]>> \o RecordsOf(data, n - 1, t + 1)

IsPrefix(a, b) == Len(a) <= Len(b) /\ SubSeq(b, 1, Len(a)) = a

\* C14: in every step the stored sequence before the step is a prefix of
\* the stored sequence after it, and a slot that holds a sequence keeps
\* holding one; so no record is ever removed, reordered or modified.
C14_AppendOnly ==
    [][/\ IsPrefix(slot.items, slot'.items)
       /\ slot.kind = "array" => slot'.kind = "array"
       /\ slot.kind = "malformed" => slot' = slot]_vars

\* C14 witness: a first submit, over before the second began (its fetch
\* threw at once, so only the second was sent), has stored its record; the
\* second has failed to store, and the first record is still the store.
C14_Witness ==
    /\ Finished = {1, 2}
    /\ Len(sent) = 1
    /\ calls[1].data.name # calls[2].data.name
    /\ sent[1].name = calls[2].data.name
    /\ calls[1].appends = 1
    /\ calls[2].stores >= 1
    /\ calls[2].appends = 0
    /\ slot.kind = "array"
    /\ Len(slot.items) = 1
    /\ slot.items[1].name = calls[1].data.name
    /\ slot.items[1].timestamp = 0

Messages ==
    {"Please enter a valid name", "Please enter a valid email address",
     "This field is required", "Minimum 2 characters required",
     "Please enter a valid value"}

\* C15: from every annotation state the page reaches, showFieldError(f, m)
\* called twice leaves what one call leaves: the field marked errored with
\* exactly one error-message element, carrying m.
C15_ShowIdempotent ==
    \A f \in Fields, m \in Messages :
        LET once == showFieldError(annot, f, m)
            twice == showFieldError(once, f, m)
        IN  /\ twice = once
            /\ once[f] = [error |-> TRUE, msgs |-> <<m>>]

\* C15 witness: the email field already carries a message of another
\* wording when showFieldError is called on it.
C15_Witness ==
    /\ annot["email"] = [error |-> TRUE, msgs |-> <<"This field is required">>]
    /\ value["email"] = <<>>
    /\ value["name"] = <<"J", "o">>
    /\ ~annot["name"].error

\* the message validateField is to leave on field f, "" for none
FirstFailure(f) ==
    LET v == Trim(value[f])
    IN  CASE f = "name" ->
               IF v = <<>> THEN "This field is required"
               ELSE IF Len(v) < 2 THEN "Minimum 2 characters required"
               ELSE IF \E i \in 1..Len(v) : ~InNameClass(v[i])
                    THEN "Please enter a valid value"
               ELSE ""
          [] f = "email" ->
               IF v = <<>> THEN "This field is required"
               ELSE IF ~EmailShape(v) THEN "Please enter a valid value"
               ELSE ""
          [] OTHER -> ""

\* C16: a blur leaves on a field with rules the message of the first rule
\* its trimmed value fails, in the order required, too short, pattern
\* mismatch, or no annotation when it fails none; it leaves a field
\* without rules, and every other field, as they were.
C16_FirstFailureOnly ==
    [][\A f \in AllInputs :
          OnBlur(f) =>
             /\ \A g \in AllInputs \ {f} : annot'[g] = annot[g]
             /\ annot'[f] =
                   IF f \notin DOMAIN validationRules THEN annot[f]
                   ELSE IF FirstFailure(f) = "" THEN NoAnnot
                   ELSE [error |-> TRUE, msgs |-> <<FirstFailure(f)>>]]_vars

\* C16 witness: the name "1" is both too short and off the pattern; the
\* blur has reported the length alone.
C16_Witness ==
    /\ value["name"] = <<"1">>
    /\ annot["name"] =
          [error |-> TRUE, msgs |-> <<"Minimum 2 characters required">>]
    /\ "other" \in DOMAIN annot
    /\ annot["other"].error

\* C17: the success message becomes active only in a step in which a
\* handleFormSubmit finishes having stored its record, which is then the
\* last of the store; and whenever it is active, a finished call's record
\* is in the store.  A call that finishes without having stored leaves the
\* success message as it was.
C17_SuccessImpliesStored ==
    /\ [](successActive =>
             \E h \in Finished, i \in 1..Len(slot.items) :
                 /\ calls[h].appends >= 1
                 /\ slot.items[i].name = calls[h].data.name
                 /\ slot.items[i].email = calls[h].data.email)
    /\ [][/\ (successActive' /\ ~successActive) =>
                \E h \in FinishingNow :
                    /\ calls'[h].appends >= 1
                    /\ slot'.items[Len(slot'.items)].name = calls'[h].data.name
          /\ \A h \in FinishingNow :
                calls'[h].appends = 0 => successActive' = successActive]_vars

\* C17 witness: storeRegistration threw in the try block, the fallback in
\* the catch block stored the record and the success message is shown.
C17_Witness ==
    /\ successActive
    /\ Len(calls) = 1
    /\ calls[1].pc = "done"
    /\ calls[1].stores = 2
    /\ calls[1].appends = 1
    /\ Len(slot.items) = 1
    /\ slot.items[1].name = calls[1].data.name

\* C18: no handleFormSubmit appends more than one record.
C18_AtMostOneAppend ==
    \A h \in 1..Len(calls) : calls[h].appends <= 1

\* C19: every field has at most one error-message element, and has one
\* exactly when it carries the 'error' class; clearFieldError on a field
\* without annotation changes nothing; showFieldError and clearFieldError
\* on one field leave the other field's annotation alone.
C19_OneMessageIffErrored ==
    /\ \A f \in Fields :
          /\ Len(annot[f].msgs) <= 1
          /\ annot[f].error <=> Len(annot[f].msgs) = 1
          /\ annot[f] = NoAnnot => clearFieldError(annot, f) = annot
    /\ \A f \in Fields, g \in Fields, m \in Messages :
          g # f => /\ showFieldError(annot, f, m)[g] = annot[g]
                   /\ clearFieldError(annot, f)[g] = annot[g]

\* C19 witness: after a submit, a blur has marked the name field with one
\* message while the email field, valid, carries neither mark nor message.
C19_Witness ==
    /\ value["name"] = <<"J", "1">>
    /\ value["email"] = ValidEmailSample
    /\ annot["name"] = [error |-> TRUE, msgs |-> <<"Please enter a valid value">>]
    /\ annot["email"] = NoAnnot
    /\ Len(calls) = 1

SubmitState == <<slot, now, sent, button, formHidden, successActive, calls>>

\* C20: a change of a field that is not marked errored leaves every
\* annotation as it was; a blur marks the field exactly when its value
\* fails one of its rules, whatever its mark was; neither touches the
\* store, the requests, the button, the form or the success message.
C20_InputOnlyWhileErrored ==
    [][/\ value' # value =>
             /\ UNCHANGED SubmitState
             /\ \A f \in Fields :
                   (value'[f] # value[f] /\ ~annot[f].error) => annot' = annot
       /\ \A f \in Fields :
             OnBlur(f) =>
                /\ UNCHANGED SubmitState
                /\ annot'[f].error <=> FirstFailure(f) # ""]_vars

\* C20 witness: the name was changed to "J1" while unmarked and is still
\* unmarked, and the empty email was marked by a blur.
C20_Witness ==
    /\ value["name"] = <<"J", "1">>
    /\ annot["name"] = NoAnnot
    /\ value["email"] = <<>>
    /\ annot["email"] = [error |-> TRUE, msgs |-> <<"This field is required">>]
    /\ calls = <<>>

====
